---- MODULE Spec2Model ----
(***************************************************************************)
(* A model of the Minecraft shader language server (server/src/main.rs):   *)
(* the include graph, the include scanner, the save-time edge diff, the    *)
(* lint orchestrator, the depth-first traversal and the LSP handlers.      *)
(***************************************************************************)
EXTENDS Integers, Sequences, FiniteSets, TLC

VARIABLES
    graph,      \* CachedStableGraph: [nodes, out], both in insertion order
    root,       \* MinecraftShaderLanguageServer.root
    wait,       \* MinecraftShaderLanguageServer.wait (WaitGroup counter)
    inits,      \* number of initialize requests handled so far
    early,      \* file events handled so far while no root is set
    blocked,    \* the server thread is parked inside wait.wait()
    crashed,    \* a handler panicked: the process is gone
    content,    \* the files on disk: path -> sequence of lines
    lastEvent,  \* the message handled last and how its request was completed
    upd,        \* what the last update_includes did
    lintOut,    \* what the last lint did and returned
    links,      \* the links the last documentLink returned
    dfs,        \* the state of a dfs::Dfs iterator
    dfsResult   \* what collect() made of the iterator's items

vars == <<graph, root, wait, inits, early, blocked, crashed, content, lastEvent,
          upd, lintOut, links, dfs, dfsResult>>

----------------------------------------------------------------------------
(* Bounds of the model.                                                    *)

\* initialize requests the client sends
MaxInits == 1
\* did_open and did_save notifications the client sends before a root is set
MaxEarly == 1
\* edges the graph may hold (the save-time diff can add edges without end)
MaxEdges == 3

----------------------------------------------------------------------------
(* Generic helpers.                                                        *)

Range(s) == {s[i] : i \in 1..Len(s)}

Count(s, x) == Cardinality({i \in 1..Len(s) : s[i] = x})

\* the two sequences hold the same elements the same number of times
SameMultiset(s, t) == \A x \in Range(s) \cup Range(t) : Count(s, x) = Count(t, x)

\* every enumeration of the finite set S without repetition
RECURSIVE Orders(_)
Orders(S) ==
    IF S = {} THEN {<<>>}
    ELSE UNION {{<<x>> \o o : o \in Orders(S \ {x})} : x \in S}

IsPrefix(s, t) == Len(s) <= Len(t) /\ SubSeq(t, 1, Len(s)) = s

\* s without its i-th element
RemoveAt(s, i) == SubSeq(s, 1, i - 1) \o SubSeq(s, i + 1, Len(s))

\* Option::None of a node id
None == 0

----------------------------------------------------------------------------
(* Paths, URLs and the files on disk.                                      *)

MkPath(abs, dir, name, ext) == [abs |-> abs, dir |-> dir, name |-> name, ext |-> ext]

FA == MkPath(TRUE, <<"w", "shaders">>, "a", "fsh")
FB == MkPath(TRUE, <<"w", "shaders">>, "b", "glsl")
FC == MkPath(TRUE, <<"w", "shaders", "lib">>, "c", "glsl")
FD == MkPath(TRUE, <<"w", "shaders">>, "d", "vsh")
FO == MkPath(TRUE, <<"o">>, "x", "fsh")
FG == MkPath(TRUE, <<"w", "shaders">>, "g", "csh")

NoPath == MkPath(FALSE, <<>>, "", "")
NoUrl == [scheme |-> "", path |-> NoPath]

\* the workspace root the client names in initialize
WorkspaceRoot == [abs |-> TRUE, dir |-> <<"w">>]

\* main: root: "".into()
InitialRoot == [abs |-> FALSE, dir |-> <<>>]

\* Path::starts_with: component-wise prefix; the empty path is a prefix of all
StartsWith(path, r) ==
    IF r.dir = <<>> /\ ~r.abs THEN TRUE
    ELSE path.abs = r.abs /\ IsPrefix(r.dir, path.dir)

\* Path::extension
Extension(path) == path.ext

\* Url::from_file_path: fails on a relative path
UrlFromFilePath(path) ==
    IF path.abs THEN [ok |-> TRUE, url |-> [scheme |-> "file", path |-> path]]
    ELSE [ok |-> FALSE, url |-> NoUrl]

\* url_norm::FromUrl for PathBuf
FromUrl(url) == url.path

Uri(path) == [scheme |-> "file", path |-> path]

----------------------------------------------------------------------------
(* File contents: a line is an #include directive or something else.       *)

NoTarget == [abs |-> FALSE, dir |-> <<>>, name |-> "", ext |-> ""]

IncludeLine(ws, abs, dir, name, ext) ==
    [inc |-> TRUE, ws |-> ws,
     target |-> [abs |-> abs, dir |-> dir, name |-> name, ext |-> ext]]

OtherLine == [inc |-> FALSE, ws |-> 0, target |-> NoTarget]

IncA == IncludeLine(0, FALSE, <<>>, "a", "fsh")
IncB == IncludeLine(0, FALSE, <<>>, "b", "glsl")
IncC == IncludeLine(0, TRUE, <<"lib">>, "c", "glsl")
\* #include "//lib/c.glsl": an empty first component after the leading '/'
IncCC == IncludeLine(0, TRUE, <<"", "lib">>, "c", "glsl")

\* Three workspaces the server may be started on.  The first has one shader
\* whose includes are edited and a file outside the workspace root; the
\* second has two shaders sharing a library file that may include one back;
\* the third has a compute shader, which the initial walk leaves out, and a
\* shader that may include a path with two leading slashes.
Workspace1 == (FA :> <<IncB>>) @@ (FB :> <<>>) @@ (FC :> <<>>) @@ (FO :> <<>>)
Workspace2 == (FA :> <<IncB>>) @@ (FB :> <<>>) @@ (FD :> <<IncB>>)
Workspace3 == (FA :> <<IncB>>) @@ (FB :> <<>>) @@ (FG :> <<>>)

Workspaces == {Workspace1, Workspace2, Workspace3}

\* the texts an editor may write to file f of the workspace on disk
Menu(disk, f) ==
    IF FD \in DOMAIN disk
    THEN CASE f = FB -> {<<>>, <<IncA>>}
           [] f = FD -> {<<>>, <<IncB>>}
           [] OTHER  -> {disk[f]}
    ELSE IF FG \in DOMAIN disk
    THEN CASE f = FA -> {<<IncB>>, <<IncCC>>}
           [] OTHER  -> {disk[f]}
    ELSE CASE f = FA -> {<<IncB>>, <<IncB, IncB>>, <<OtherLine, IncB>>, <<IncB, IncC>>}
           [] OTHER  -> {disk[f]}

\* the files the client sends did_open, did_save and documentLink for
EventFiles(disk) ==
    IF FD \in DOMAIN disk THEN {FA, FB}
    ELSE IF FG \in DOMAIN disk THEN {FA, FG}
    ELSE {FA, FO}

----------------------------------------------------------------------------
(* graph::CachedStableGraph.                                               *)

EmptyGraph == [nodes |-> <<>>, out |-> <<>>]

\* find_node(path) -> id?
FindNode(g, path) ==
    IF \E i \in 1..Len(g.nodes) : g.nodes[i] = path
    THEN CHOOSE i \in 1..Len(g.nodes) : g.nodes[i] = path
    ELSE None

\* get_node(id) -> path
GetNode(g, id) == g.nodes[id]

\* add_node(path) -> id, idempotent; the pair <<graph, id>>
AddNode(g, path) ==
    IF FindNode(g, path) # None THEN <<g, FindNode(g, path)>>
    ELSE <<[nodes |-> Append(g.nodes, path), out |-> Append(g.out, <<>>)],
           Len(g.nodes) + 1>>

\* add_edge(parent, child, position): appends, duplicates allowed
AddEdge(g, parent, child, meta) ==
    [g EXCEPT !.out[parent] = Append(@, [child |-> child, meta |-> meta])]

\* the outgoing edges of parent, in insertion order
OutEdges(g, parent) == g.out[parent]

\* the positions in OutEdges(g, parent) of the edges parent -> child
EdgesBetween(g, parent, child) ==
    {i \in 1..Len(OutEdges(g, parent)) : OutEdges(g, parent)[i].child = child}

\* find_edge(parent, child): the first inserted
FindEdge(g, parent, child) ==
    CHOOSE i \in EdgesBetween(g, parent, child) :
        \A j \in EdgesBetween(g, parent, child) : i <= j

\* remove_edge(parent, child): removes one matching edge
RemoveEdge(g, parent, child) ==
    [g EXCEPT !.out[parent] = RemoveAt(@, FindEdge(g, parent, child))]

\* get_edge_meta(parent, child): the first matching edge's position
GetEdgeMeta(g, parent, child) == OutEdges(g, parent)[FindEdge(g, parent, child)].meta

\* child_ids(parent): one id per outgoing edge, in insertion order
ChildNodeIndexes(g, parent) ==
    [i \in 1..Len(OutEdges(g, parent)) |-> OutEdges(g, parent)[i].child]

\* child_meta(parent): (child_path, position) per outgoing edge, same order
ChildNodeMeta(g, parent) ==
    [i \in 1..Len(OutEdges(g, parent)) |->
        <<GetNode(g, OutEdges(g, parent)[i].child), OutEdges(g, parent)[i].meta>>]

RECURSIVE SumLen(_)
SumLen(ss) == IF ss = <<>> THEN 0 ELSE Len(Head(ss)) + SumLen(Tail(ss))

\* the number of edges of the graph
EdgeCount(g) == SumLen(g.out)

ParentNodeIndexes(g, child) ==
    {p \in 1..Len(g.nodes) : EdgesBetween(g, p, child) # {}}

RECURSIVE AncestorsFrom(_, _)
AncestorsFrom(g, seen) ==
    LET more == UNION {ParentNodeIndexes(g, n) : n \in seen}
    IN  IF more \subseteq seen THEN seen ELSE AncestorsFrom(g, seen \cup more)

ShaderExtensions == {"fsh", "vsh", "gsh", "csh"}

\* collect_root_ancestors(id): the transitive parents that are roots by
\* extension, the queried node excluded
CollectRootAncestors(g, id) ==
    {n \in AncestorsFrom(g, ParentNodeIndexes(g, id)) :
        n # id /\ Extension(GetNode(g, n)) \in ShaderExtensions}

----------------------------------------------------------------------------
(* The include scanner and the graph maintainer.                           *)

IncludePrefixLen == 10

RECURSIVE DirLen(_)
DirLen(d) == IF d = <<>> THEN 0 ELSE Len(Head(d)) + 1 + DirLen(Tail(d))

\* the length of the text between the quotes
TargetLen(t) ==
    (IF t.abs THEN 1 ELSE 0) + DirLen(t.dir)
    + Len(t.name) + (IF t.ext = "" THEN 0 ELSE 1 + Len(t.ext))

\* Path::join: an absolute argument replaces the base
PathJoin(base, p) ==
    IF p.abs THEN p ELSE MkPath(base.abs, base.dir \o p.dir, p.name, p.ext)

\* strip_prefix('/') and PathBuf::from_slash: what is left of a target after
\* its leading '/'; it is absolute again when another '/' follows
StripPrefixSlash(t) ==
    IF t.dir # <<>> /\ Head(t.dir) = ""
    THEN MkPath(TRUE, Tail(t.dir), t.name, t.ext)
    ELSE MkPath(FALSE, t.dir, t.name, t.ext)

\* find_includes, the resolution of one target
ResolveInclude(rt, file, t) ==
    IF t.abs
    THEN PathJoin([abs |-> rt.abs, dir |-> rt.dir \o <<"shaders">>], StripPrefixSlash(t))
    ELSE PathJoin([abs |-> file.abs, dir |-> file.dir], t)

\* find_includes, the IncludePosition of the directive on line i (1-based here)
IncludePositionOf(i, l) ==
    [line |-> i - 1,
     start |-> l.ws + IncludePrefixLen,
     end |-> l.ws + IncludePrefixLen + TargetLen(l.target)]

\* find_includes for a file that can be opened
FindIncludes(rt, disk, file) ==
    LET lines == disk[file]
        idx == SelectSeq([i \in 1..Len(lines) |-> i], LAMBDA i : lines[i].inc)
    IN  [k \in 1..Len(idx) |->
            <<ResolveInclude(rt, file, lines[idx[k]].target),
              IncludePositionOf(idx[k], lines[idx[k]])>>]

\* an add_include that makes a node for the include without looking it up
AddIncludeFresh(g, include, node) ==
    AddEdge([nodes |-> Append(g.nodes, include[1]), out |-> Append(g.out, <<>>)],
            node, Len(g.nodes) + 1, include[2])

\* add_include
AddInclude(g, include, node) ==
    LET r == AddNode(g, include[1])
    IN  AddEdge(r[1], node, r[2], include[2])

RECURSIVE AddIncludes(_, _, _)
AddIncludes(g, includes, node) ==
    IF includes = <<>> THEN g
    ELSE AddIncludes(AddInclude(g, Head(includes), node), Tail(includes), node)

\* add_file_and_includes_to_graph
AddFileAndIncludesToGraph(g, rt, disk, path) ==
    LET r == AddNode(g, path)
    IN  AddIncludes(r[1], FindIncludes(rt, disk, path), r[2])

\* update_includes: the two set differences
ToBeAdded(g, idx, includes) == Range(includes) \ Range(ChildNodeMeta(g, idx))
ToBeRemoved(g, idx, includes) == Range(ChildNodeMeta(g, idx)) \ Range(includes)

\* update_includes: the removal loop; the graph and the edges really removed
RECURSIVE RemoveAll(_, _, _, _)
RemoveAll(g, idx, removals, done) ==
    IF removals = <<>> THEN [g |-> g, removed |-> done]
    ELSE LET child == FindNode(g, Head(removals)[1])
         IN  RemoveAll(RemoveEdge(g, idx, child), idx, Tail(removals),
                       Append(done, <<GetNode(g, child), GetEdgeMeta(g, idx, child)>>))

\* update_includes: the include the insertion loop looks up for an insertion
FirstWithPath(includes, path) ==
    includes[CHOOSE i \in 1..Len(includes) :
                /\ includes[i][1] = path
                /\ \A j \in 1..Len(includes) : includes[j][1] = path => i <= j]

\* update_includes: the insertion loop; the graph and the edges really added
RECURSIVE InsertAll(_, _, _, _, _)
InsertAll(g, idx, includes, insertions, done) ==
    IF insertions = <<>> THEN [g |-> g, added |-> done]
    ELSE LET inc == FirstWithPath(includes, Head(insertions)[1])
         IN  InsertAll(AddInclude(g, inc, idx), idx, includes, Tail(insertions),
                       Append(done, inc))

NoUpdate == [file |-> NoPath, hadNode |-> FALSE, prev |-> <<>>, scanned |-> <<>>,
             removed |-> <<>>, added |-> <<>>]

\* update_includes, the HashSet iteration orders being remOrder and addOrder
UpdateIncludes(g, rt, disk, file, remOrder, addOrder) ==
    LET includes == FindIncludes(rt, disk, file)
        idx == FindNode(g, file)
    IN  IF idx = None
        THEN [g |-> g,
              log |-> [NoUpdate EXCEPT !.file = file, !.scanned = includes]]
        ELSE LET r == RemoveAll(g, idx, remOrder, <<>>)
                 a == InsertAll(r.g, idx, includes, addOrder, <<>>)
             IN  [g |-> a.g,
                  log |-> [file |-> file, hadNode |-> TRUE,
                           prev |-> ChildNodeMeta(g, idx), scanned |-> includes,
                           removed |-> r.removed, added |-> a.added]]

----------------------------------------------------------------------------
(* dfs::Dfs: the traversal as an iterator.  stack holds the pending visits *)
(* (next one first), path the ancestors of the visit made last.            *)

DfsNew(start) ==
    [stack |-> <<[node |-> start, parent |-> None, depth |-> 0]>>,
     path |-> <<>>, out |-> <<>>, status |-> "running", err |-> <<>>]

\* the children of a visit pushed last edge first
DfsPushReversed(g, top) ==
    [i \in 1..Len(ChildNodeIndexes(g, top.node)) |->
        [node |-> ChildNodeIndexes(g, top.node)[Len(ChildNodeIndexes(g, top.node)) + 1 - i],
         parent |-> top.node, depth |-> top.depth + 1]]

\* the children of a visit, pushed in the insertion order of the edges
DfsPush(g, top) ==
    [i \in 1..Len(ChildNodeIndexes(g, top.node)) |->
        [node |-> ChildNodeIndexes(g, top.node)[i], parent |-> top.node,
         depth |-> top.depth + 1]]

\* is the pending visit a return to one of its own ancestors
DfsIsCycle(s, top) == top.node \in Range(SubSeq(s.path, 1, top.depth))

\* Iterator::next
DfsNext(g, s) ==
    IF s.stack = <<>> THEN [s EXCEPT !.status = "done"]
    ELSE LET top == Head(s.stack)
         IN  IF DfsIsCycle(s, top)
             THEN [s EXCEPT !.status = "cycle", !.err = <<top.parent, top.node>>]
             ELSE [s EXCEPT !.stack = DfsPush(g, top) \o Tail(s.stack),
                            !.path = Append(SubSeq(s.path, 1, top.depth), top.node),
                            !.out = Append(@, <<top.node, top.parent>>)]

RECURSIVE DfsRun(_, _)
DfsRun(g, s) == IF s.status # "running" THEN s ELSE DfsRun(g, DfsNext(g, s))

NoDfsResult == [set |-> FALSE, ok |-> FALSE, tree |-> <<>>, err |-> <<>>, visited |-> <<>>]

\* a collect() that keeps the items yielded and forgets the error
CollectResultLenient(s) ==
    [set |-> TRUE, ok |-> TRUE, tree |-> s.out, err |-> <<>>, visited |-> s.out]

\* get_dfs_for_node: collect::<Result<Vec<_>, _>>() of a finished iterator;
\* visited keeps the items the iterator yielded before an error
CollectResult(s) ==
    IF s.status = "cycle"
    THEN [set |-> TRUE, ok |-> FALSE, tree |-> <<>>, err |-> s.err, visited |-> s.out]
    ELSE [set |-> TRUE, ok |-> TRUE, tree |-> s.out, err |-> <<>>, visited |-> s.out]

\* get_dfs_for_node
GetDfsForNode(g, start) == CollectResult(DfsRun(g, DfsNew(start)))

----------------------------------------------------------------------------
(* The validator's output and its parser.                                  *)

\* parse_validator_stdout: linenum - 2 in u32.  TLC's integers end below 2^32,
\* so a wrapped result is written as its distance below 2^32
SubU32(n, k) ==
    IF n >= k THEN [wrapped |-> FALSE, value |-> n - k]
    ELSE [wrapped |-> TRUE, value |-> k - n]

\* a line of driver output: does it match RE_DIAGNOSTIC, and its captures
DriverLine(matches, zero, path, linenum, severity, output) ==
    [matches |-> matches, zero |-> zero, path |-> path, linenum |-> linenum,
     severity |-> severity, output |-> output]

\* linenum is the text the group (\d+) captured, as its decimal digits
LineJunk == DriverLine(FALSE, FALSE, FB, <<0>>, "", "")
LineE7 == DriverLine(TRUE, TRUE, FB, <<7>>, "error", "bad thing")
LineW9 == DriverLine(TRUE, TRUE, FB, <<9>>, "warning", "odd thing")
LineB3 == DriverLine(TRUE, FALSE, FB, <<3>>, "error", "bad include")
LineE1 == DriverLine(TRUE, TRUE, FB, <<1>>, "error", "first line")
LineC5 == DriverLine(TRUE, FALSE, FC, <<5>>, "error", "bad library")
LineHuge == DriverLine(TRUE, TRUE, FB, <<9, 9, 9, 9, 9, 9, 9, 9, 9, 9, 9>>, "error", "far away")

\* what validate() may return for the tree of a root: None or Some(stdout)
Responses(rootPath) ==
    {[some |-> FALSE, stdout |-> <<>>],
     [some |-> TRUE, stdout |-> <<LineJunk>>],
     [some |-> TRUE,
      stdout |-> IF rootPath = FD THEN <<LineW9, LineB3>> ELSE <<LineE7, LineJunk, LineB3>>],
     [some |-> TRUE, stdout |-> IF rootPath = FA THEN <<LineE1, LineC5>> ELSE <<LineHuge>>]}

EmptyMap == [u \in {} |-> <<>>]

\* HashMap::extend: the values of m2 replace those of m1
Extend(m1, m2) ==
    [u \in DOMAIN m1 \cup DOMAIN m2 |-> IF u \in DOMAIN m2 THEN m2[u] ELSE m1[u]]

LineOffset == 2

\* the digits of u32::MAX
U32MaxDigits == <<4, 2, 9, 4, 9, 6, 7, 2, 9, 5>>

RECURSIVE StripZeros(_)
StripZeros(ds) ==
    IF Len(ds) > 1 /\ Head(ds) = 0 THEN StripZeros(Tail(ds)) ELSE ds

\* a <= b for digit sequences of one length
RECURSIVE DigitsLeq(_, _)
DigitsLeq(a, b) ==
    IF a = <<>> THEN TRUE
    ELSE IF Head(a) # Head(b) THEN Head(a) < Head(b)
    ELSE DigitsLeq(Tail(a), Tail(b))

RECURSIVE DigitsValue(_, _)
DigitsValue(ds, acc) ==
    IF ds = <<>> THEN acc ELSE DigitsValue(Tail(ds), 10 * acc + Head(ds))

\* str::parse::<u32>: Err when the number does not fit
ParseU32(ds) ==
    LET d == StripZeros(ds)
    IN  IF Len(d) > Len(U32MaxDigits)
           \/ (Len(d) = Len(U32MaxDigits) /\ ~DigitsLeq(d, U32MaxDigits))
        THEN [ok |-> FALSE, value |-> 0]
        ELSE [ok |-> TRUE, value |-> DigitsValue(d, 0)]

\* parse_validator_stdout: the number the offset is subtracted from
LineNumberOf(l) == IF ParseU32(l.linenum).ok THEN ParseU32(l.linenum).value ELSE 0

\* parse_validator_stdout: the diagnostic made of one matched line
DiagnosticOf(l) ==
    [line |-> SubU32(LineNumberOf(l), LineOffset),
     severity |-> IF l.severity = "error" THEN "Error"
                  ELSE IF l.severity = "warning" THEN "Warning" ELSE "Information",
     message |-> l.output]

\* a parser that files every diagnostic under the linted file
OriginOfTrigger(uri, l) == UrlFromFilePath(uri).url

\* parse_validator_stdout: the url a matched line is filed under
OriginOf(uri, l) == IF l.zero THEN UrlFromFilePath(uri).url ELSE UrlFromFilePath(l.path).url

\* parse_validator_stdout: get_mut / push, or insert
PushDiagnostic(m, u, d) ==
    IF u \in DOMAIN m THEN [m EXCEPT ![u] = Append(@, d)]
    ELSE Extend(m, [v \in {u} |-> <<d>>])

RECURSIVE ParseLines(_, _, _)
ParseLines(uri, lines, m) ==
    IF lines = <<>> THEN m
    ELSE IF ~Head(lines).matches THEN ParseLines(uri, Tail(lines), m)
    ELSE ParseLines(uri, Tail(lines),
                    PushDiagnostic(m, OriginOf(uri, Head(lines)), DiagnosticOf(Head(lines))))

\* parse_validator_stdout
ParseValidatorStdout(uri, stdout) == ParseLines(uri, stdout, EmptyMap)

----------------------------------------------------------------------------
(* The lint orchestrator.                                                  *)

\* a lint that takes every root for a fragment shader
TreeTypeOfFragment(ext) == "Fragment"

\* lint: the TreeType of a root's extension, None for any other extension
TreeTypeOf(ext) ==
    CASE ext = "fsh" -> "Fragment"
      [] ext = "vsh" -> "Vertex"
      [] ext = "gsh" -> "Geometry"
      [] ext = "csh" -> "Compute"
      [] OTHER -> "None"

\* load_sources: reads each node's file once, in visit order; the first
\* failed read fails the call.  reads lists the paths handed to the file system
RECURSIVE LoadSourcesFrom(_, _, _, _, _)
LoadSourcesFrom(g, disk, nodes, sources, reads) ==
    IF nodes = <<>> THEN [ok |-> TRUE, sources |-> sources, reads |-> reads]
    ELSE LET path == GetNode(g, Head(nodes)[1])
         IN  IF path \in DOMAIN sources
             THEN LoadSourcesFrom(g, disk, Tail(nodes), sources, reads)
             ELSE IF path \notin DOMAIN disk
             THEN [ok |-> FALSE, sources |-> sources, reads |-> Append(reads, path)]
             ELSE LoadSourcesFrom(g, disk, Tail(nodes),
                                  Extend(sources, [q \in {path} |-> disk[path]]),
                                  Append(reads, path))

LoadSources(g, disk, nodes) == LoadSourcesFrom(g, disk, nodes, EmptyMap, <<>>)

\* a back_fill that adds no key
BackFillNothing(allSources, diagnostics) == diagnostics

\* the back_fill closure: an empty list for every source not yet a key
BackFill(allSources, diagnostics) ==
    [u \in DOMAIN diagnostics \cup {UrlFromFilePath(q).url : q \in DOMAIN allSources} |->
        IF u \in DOMAIN diagnostics THEN diagnostics[u] ELSE <<>>]

\* impl From<CycleError> for Diagnostic
CycleDiagnostic(err) == [line |-> SubU32(0, 0), severity |-> "Error", message |-> "cycle"]

\* a lint that drops the cycle error instead of reporting it
InsertCycleDropped(diagnostics, uri, err) == diagnostics

\* lint: what the cycle branches put into the map for the triggering file
InsertCycle(diagnostics, uri, err) ==
    Extend(diagnostics, [u \in {UrlFromFilePath(uri).url} |-> <<CycleDiagnostic(err)>>])

VisitedNodes(g, visits) == {GetNode(g, visits[i][1]) : i \in 1..Len(visits)}

NoLint == [trigger |-> NoPath, status |-> "none", result |-> EmptyMap, cycle |-> FALSE,
           visited |-> {}, validated |-> <<>>, parsed |-> <<>>, reads |-> <<>>]

LintLog(uri, status, result, cycle, visited, validated, parsed, reads) ==
    [trigger |-> uri, status |-> status, result |-> result, cycle |-> cycle,
     visited |-> visited, validated |-> validated, parsed |-> parsed, reads |-> reads]

\* one call of validate(): the tree's root and type, and what it answered
Validation(rootPath, kind, out) ==
    [root |-> rootPath, kind |-> kind, some |-> out.some, stdout |-> out.stdout]

\* get_file_toplevel_ancestors: the root ancestors, as a set
GetFileToplevelAncestors(g, uri) ==
    IF FindNode(g, uri) = None THEN [ok |-> FALSE, roots |-> {}]
    ELSE [ok |-> TRUE, roots |-> CollectRootAncestors(g, FindNode(g, uri))]

\* lint, the branch of a file without root ancestors
LintTopLevel(g, disk, uri, resp) ==
    LET start == FindNode(g, uri)
        d == GetDfsForNode(g, start)
        seen == VisitedNodes(g, d.visited)
        ls == LoadSources(g, disk, d.tree)
        kind == TreeTypeOf(Extension(GetNode(g, start)))
        out == resp[GetNode(g, start)]
        parsed == ParseValidatorStdout(uri, out.stdout)
    IN  IF ~d.ok
        THEN LintLog(uri, "ok", InsertCycle(EmptyMap, uri, d.err), TRUE, seen,
                     <<>>, <<>>, <<>>)
        ELSE IF ~ls.ok
        THEN LintLog(uri, "err", EmptyMap, FALSE, seen, <<>>, <<>>, ls.reads)
        ELSE IF kind = "None"
        THEN LintLog(uri, "ok", BackFill(ls.sources, EmptyMap), FALSE, seen,
                     <<>>, <<>>, ls.reads)
        ELSE IF ~out.some
        THEN LintLog(uri, "ok", BackFill(ls.sources, EmptyMap), FALSE, seen,
                     <<Validation(GetNode(g, start), kind, out)>>, <<EmptyMap>>, ls.reads)
        ELSE LintLog(uri, "ok", BackFill(ls.sources, Extend(EmptyMap, parsed)), FALSE,
                     seen, <<Validation(GetNode(g, start), kind, out)>>,
                     <<parsed>>, ls.reads)

NoTrees == [kind |-> "ok", err |-> <<>>, sources |-> EmptyMap, trees |-> <<>>,
            visited |-> {}, reads |-> <<>>]

\* lint, the first loop of the branch with root ancestors: one DFS per root
RECURSIVE GatherTrees(_, _, _, _)
GatherTrees(g, disk, roots, acc) ==
    IF roots = <<>> THEN acc
    ELSE LET r == Head(roots)
             d == GetDfsForNode(g, r)
             kind == TreeTypeOf(Extension(GetNode(g, r)))
             ls == LoadSources(g, disk, d.tree)
             acc1 == [acc EXCEPT !.visited = @ \cup VisitedNodes(g, d.visited)]
         IN  IF ~d.ok THEN [acc1 EXCEPT !.kind = "cycle", !.err = d.err]
             ELSE IF kind = "None" THEN GatherTrees(g, disk, Tail(roots), acc1)
             ELSE IF ~ls.ok
             THEN [acc1 EXCEPT !.kind = "err", !.reads = @ \o ls.reads]
             ELSE GatherTrees(g, disk, Tail(roots),
                     [acc1 EXCEPT !.trees = Append(@, [root |-> GetNode(g, r), kind |-> kind]),
                                  !.sources = Extend(@, ls.sources),
                                  !.reads = @ \o ls.reads])

NoValidation == [diagnostics |-> EmptyMap, validated |-> <<>>, parsed |-> <<>>]

\* a second loop that gives up at the first tree validate() answers None for
RECURSIVE ValidateTreesStopAtNone(_, _, _, _)
ValidateTreesStopAtNone(uri, trees, resp, acc) ==
    IF trees = <<>> THEN acc
    ELSE LET t == Head(trees)
             out == resp[t.root]
             parsed == ParseValidatorStdout(uri, out.stdout)
             acc1 == [acc EXCEPT !.validated = Append(@, Validation(t.root, t.kind, out))]
         IN  IF ~out.some THEN [acc1 EXCEPT !.parsed = Append(@, EmptyMap)]
             ELSE ValidateTreesStopAtNone(uri, Tail(trees), resp,
                     [acc1 EXCEPT !.diagnostics = Extend(@, parsed),
                                  !.parsed = Append(@, parsed)])

\* lint, the second loop: validate each tree and merge what the parser returns;
\* parsed[i] is what the parser made of validated[i], nothing if it was None
RECURSIVE ValidateTrees(_, _, _, _)
ValidateTrees(uri, trees, resp, acc) ==
    IF trees = <<>> THEN acc
    ELSE LET t == Head(trees)
             out == resp[t.root]
             parsed == ParseValidatorStdout(uri, out.stdout)
             acc1 == [acc EXCEPT !.validated = Append(@, Validation(t.root, t.kind, out))]
         IN  IF ~out.some
             THEN ValidateTrees(uri, Tail(trees), resp,
                                [acc1 EXCEPT !.parsed = Append(@, EmptyMap)])
             ELSE ValidateTrees(uri, Tail(trees), resp,
                     [acc1 EXCEPT !.diagnostics = Extend(@, parsed),
                                  !.parsed = Append(@, parsed)])

\* lint, the branch of a file with root ancestors, visited in the order roots
LintWithAncestors(g, disk, uri, roots, resp) ==
    LET t == GatherTrees(g, disk, roots, NoTrees)
        v == ValidateTrees(uri, t.trees, resp, NoValidation)
    IN  IF t.kind = "cycle"
        THEN LintLog(uri, "ok", BackFill(t.sources, InsertCycle(EmptyMap, uri, t.err)),
                     TRUE, t.visited, <<>>, <<>>, t.reads)
        ELSE IF t.kind = "err"
        THEN LintLog(uri, "err", EmptyMap, FALSE, t.visited, <<>>, <<>>, t.reads)
        ELSE LintLog(uri, "ok", BackFill(t.sources, v.diagnostics), FALSE, t.visited,
                     v.validated, v.parsed, t.reads)

\* lint(uri): roots is the order of the root ancestors, resp what validate()
\* answers for each root
Lint(g, disk, uri, roots, resp) ==
    IF ~GetFileToplevelAncestors(g, uri).ok
    THEN LintLog(uri, "err", EmptyMap, FALSE, {}, <<>>, <<>>, <<>>)
    ELSE IF roots = <<>> THEN LintTopLevel(g, disk, uri, resp)
    ELSE LintWithAncestors(g, disk, uri, roots, resp)

\* a lint that makes a node for the linted file when it has none
LintGraphAddsNode(g, uri) == AddNode(g, uri)[1]

\* lint: the graph it leaves behind; its borrow_mut() calls are find_node only
LintGraph(g, uri) == g

\* the roots validate() may be asked about in lint(uri)
LintRoots(g, uri) ==
    IF FindNode(g, uri) = None THEN {}
    ELSE IF GetFileToplevelAncestors(g, uri).roots = {} THEN {uri}
    ELSE {GetNode(g, n) : n \in GetFileToplevelAncestors(g, uri).roots}

----------------------------------------------------------------------------
(* The LSP handlers.                                                       *)

Event(kind, file, response) == [kind |-> kind, file |-> file, response |-> response]

Alive == ~blocked /\ ~crashed

\* the order in which WalkDir yields the files below the workspace root
WalkOrder == <<FA, FB, FD, FG, FC>>

WalkExtensions == {"vsh", "fsh", "glsl", "inc"}

RECURSIVE AddFiles(_, _, _, _)
AddFiles(g, rt, disk, files) ==
    IF files = <<>> THEN g
    ELSE AddFiles(AddFileAndIncludesToGraph(g, rt, disk, Head(files)), rt, disk, Tail(files))

\* gen_initial_graph
GenInitialGraph(g, rt, disk) ==
    AddFiles(g, rt, disk,
             SelectSeq(WalkOrder, LAMBDA f : /\ f \in DOMAIN disk
                                             /\ StartsWith(f, rt)
                                             /\ Extension(f) \in WalkExtensions))

\* initialize: wait.add(1), then the failure for a missing root_uri or the walk
Initialize(hasRoot) ==
    /\ Alive
    /\ inits < MaxInits
    /\ inits' = inits + 1
    /\ wait' = wait + 1
    /\ IF hasRoot
       THEN /\ root' = WorkspaceRoot
            /\ graph' = GenInitialGraph(graph, WorkspaceRoot, content)
            /\ EdgeCount(graph') <= MaxEdges
            /\ early' = 0
            /\ lastEvent' = Event("initialize", NoPath, "ok")
       ELSE /\ UNCHANGED <<root, graph, early>>
            /\ lastEvent' = Event("initialize", NoPath, "error")
    /\ upd' = NoUpdate /\ lintOut' = NoLint /\ links' = <<>>
    /\ UNCHANGED <<blocked, crashed, content, dfs, dfsResult>>

\* workspace_change_configuration: wait.done(); the counter must not go negative
WorkspaceChangeConfiguration ==
    /\ Alive
    /\ IF wait > 0
       THEN wait' = wait - 1 /\ UNCHANGED crashed
       ELSE crashed' = TRUE /\ UNCHANGED wait
    /\ lastEvent' = Event("workspace_change_configuration", NoPath, "none")
    /\ upd' = NoUpdate /\ lintOut' = NoLint /\ links' = <<>>
    /\ UNCHANGED <<graph, root, inits, early, blocked, content, dfs, dfsResult>>

\* did the subtraction of the line offset wrap in some diagnostic of the lint
Wrapped(l) ==
    \E i \in 1..Len(l.parsed) : \E u \in DOMAIN l.parsed[i] :
        \E k \in 1..Len(l.parsed[i][u]) : l.parsed[i][u][k].line.wrapped

\* the subtraction overflows: a build with overflow checks panics there, a
\* build without them goes on with the wrapped number
OverflowOutcomes(l) == IF Wrapped(l) THEN {"wrap", "panic"} ELSE {"none"}

\* a tail of did_open and did_save that publishes whatever lint returned
LintAndPublishAlways(kind, g, path) ==
    \E roots \in Orders(GetFileToplevelAncestors(g, path).roots) :
    \E resp \in {r \in [LintRoots(g, path) -> UNION {Responses(q) : q \in LintRoots(g, path)}] :
                    \A q \in LintRoots(g, path) : r[q] \in Responses(q)} :
        /\ lintOut' = Lint(g, content, path, roots, resp)
        /\ lastEvent' = Event(kind, path, "published")
        /\ UNCHANGED crashed

\* the tail of did_open and did_save: lint, then publish or log the error
LintAndPublish(kind, g, path) ==
    \E roots \in Orders(GetFileToplevelAncestors(g, path).roots) :
    \E resp \in {r \in [LintRoots(g, path) -> UNION {Responses(q) : q \in LintRoots(g, path)}] :
                    \A q \in LintRoots(g, path) : r[q] \in Responses(q)} :
    LET l == Lint(g, content, path, roots, resp)
    IN  \E overflow \in OverflowOutcomes(l) :
            IF overflow = "panic"
            THEN /\ lintOut' = [NoLint EXCEPT !.trigger = path, !.status = "panic"]
                 /\ lastEvent' = Event(kind, path, "panic")
                 /\ crashed' = TRUE
            ELSE /\ lintOut' = l
                 /\ lastEvent' = Event(kind, path,
                                       IF l.status = "ok" THEN "published" ELSE "logged")
                 /\ UNCHANGED crashed

\* did_open_text_document
DidOpenTextDocument(f) ==
    /\ Alive
    /\ root # InitialRoot \/ early < MaxEarly
    /\ early' = IF root = InitialRoot THEN early + 1 ELSE early
    /\ LET path == FromUrl(Uri(f))
       IN  IF ~StartsWith(path, root)
           THEN /\ lastEvent' = Event("did_open", path, "ignored")
                /\ lintOut' = NoLint
                /\ UNCHANGED <<graph, crashed>>
           ELSE IF FindNode(graph, path) = None /\ path \notin DOMAIN content
           THEN /\ crashed' = TRUE
                /\ lastEvent' = Event("did_open", path, "panic")
                /\ lintOut' = NoLint
                /\ UNCHANGED graph
           ELSE LET g == IF FindNode(graph, path) = None
                         THEN AddFileAndIncludesToGraph(graph, root, content, path)
                         ELSE graph
                IN  /\ graph' = LintGraph(g, path)
                    /\ EdgeCount(graph') <= MaxEdges
                    /\ LintAndPublish("did_open", g, path)
    /\ upd' = NoUpdate /\ links' = <<>>
    /\ UNCHANGED <<root, wait, inits, blocked, content, dfs, dfsResult>>

\* did_save_text_document
DidSaveTextDocument(f) ==
    /\ Alive
    /\ root # InitialRoot \/ early < MaxEarly
    /\ early' = IF root = InitialRoot THEN early + 1 ELSE early
    /\ LET path == FromUrl(Uri(f))
       IN  IF ~StartsWith(path, root)
           THEN /\ lastEvent' = Event("did_save", path, "ignored")
                /\ lintOut' = NoLint /\ upd' = NoUpdate
                /\ UNCHANGED <<graph, crashed>>
           ELSE IF path \notin DOMAIN content
           THEN /\ crashed' = TRUE
                /\ lastEvent' = Event("did_save", path, "panic")
                /\ lintOut' = NoLint /\ upd' = NoUpdate
                /\ UNCHANGED graph
           ELSE LET includes == FindIncludes(root, content, path)
                    idx == FindNode(graph, path)
                    rem == IF idx = None THEN {} ELSE ToBeRemoved(graph, idx, includes)
                    add == IF idx = None THEN {} ELSE ToBeAdded(graph, idx, includes)
                IN  \E remOrder \in Orders(rem) : \E addOrder \in Orders(add) :
                    LET u == UpdateIncludes(graph, root, content, path, remOrder, addOrder)
                    IN  /\ graph' = LintGraph(u.g, path)
                        /\ upd' = u.log
                        /\ EdgeCount(graph') <= MaxEdges
                        /\ LintAndPublish("did_save", u.g, path)
    /\ links' = <<>>
    /\ UNCHANGED <<root, wait, inits, blocked, content, dfs, dfsResult>>

\* document_link: the link made for one entry of child_node_indexes
LinkOf(g, node, child) ==
    [line |-> GetEdgeMeta(g, node, child).line,
     start |-> GetEdgeMeta(g, node, child).start,
     end |-> GetEdgeMeta(g, node, child).end,
     target |-> UrlFromFilePath(GetNode(g, child)).url]

\* document_link: the links, children whose path makes no url left out
DocumentLinks(g, curr) ==
    IF FindNode(g, curr) = None THEN <<>>
    ELSE LET node == FindNode(g, curr)
             kept == SelectSeq(ChildNodeIndexes(g, node),
                               LAMBDA c : UrlFromFilePath(GetNode(g, c)).ok)
         IN  [i \in 1..Len(kept) |-> LinkOf(g, node, kept[i])]

\* document_link
DocumentLink(f) ==
    /\ Alive
    /\ links' = DocumentLinks(graph, FromUrl(Uri(f)))
    /\ lastEvent' = Event("document_link", f, "ok")
    /\ upd' = NoUpdate /\ lintOut' = NoLint
    /\ UNCHANGED <<graph, root, wait, inits, early, blocked, crashed, content, dfs, dfsResult>>

\* the requests answered by error_not_available
NotAvailableMethods ==
    {"completion", "resolve_completion_item", "signature_help", "goto_definition",
     "references", "document_highlight", "document_symbols", "workspace_symbols",
     "code_action", "code_lens", "code_lens_resolve", "document_link_resolve",
     "formatting", "range_formatting", "on_type_formatting", "rename"}

\* completion .. rename: completable.complete(Err(error_not_available(())))
NotAvailable(m) ==
    /\ Alive
    /\ lastEvent' = Event(m, NoPath, "not_available")
    /\ upd' = NoUpdate /\ lintOut' = NoLint /\ links' = <<>>
    /\ UNCHANGED <<graph, root, wait, inits, early, blocked, crashed, content, dfs, dfsResult>>

\* hover: wait.wait() on the one server thread, the request never completed
Hover ==
    /\ Alive
    /\ blocked' = (wait > 0)
    /\ lastEvent' = Event("hover", NoPath, "none")
    /\ upd' = NoUpdate /\ lintOut' = NoLint /\ links' = <<>>
    /\ UNCHANGED <<graph, root, wait, inits, early, crashed, content, dfs, dfsResult>>

\* the notifications with an empty handler, and shutdown
EmptyHandlers == {"did_change", "did_close", "did_change_watched_files"}

EmptyHandler(m) ==
    /\ Alive
    /\ lastEvent' = Event(m, NoPath, "none")
    /\ upd' = NoUpdate /\ lintOut' = NoLint /\ links' = <<>>
    /\ UNCHANGED <<graph, root, wait, inits, early, blocked, crashed, content, dfs, dfsResult>>

\* the editor writes another text to a file on disk
Edit(f) ==
    /\ ~crashed
    /\ \E c \in Menu(content, f) : c # content[f] /\ content' = [content EXCEPT ![f] = c]
    /\ lastEvent' = Event("edit", f, "none")
    /\ upd' = NoUpdate /\ lintOut' = NoLint /\ links' = <<>>
    /\ UNCHANGED <<graph, root, wait, inits, early, blocked, crashed, dfs, dfsResult>>

----------------------------------------------------------------------------
(* The server.                                                             *)

IdleDfs == [stack |-> <<>>, path |-> <<>>, out |-> <<>>, status |-> "idle", err |-> <<>>]

Init ==
    /\ graph = EmptyGraph
    /\ root = InitialRoot
    /\ wait = 0
    /\ inits = 0
    /\ early = 0
    /\ blocked = FALSE
    /\ crashed = FALSE
    /\ content \in Workspaces
    /\ lastEvent = Event("start", NoPath, "none")
    /\ upd = NoUpdate
    /\ lintOut = NoLint
    /\ links = <<>>
    /\ dfs = IdleDfs
    /\ dfsResult = NoDfsResult

Next ==
    \/ \E hasRoot \in BOOLEAN : Initialize(hasRoot)
    \/ WorkspaceChangeConfiguration
    \/ \E f \in EventFiles(content) : DidOpenTextDocument(f)
    \/ \E f \in EventFiles(content) : DidSaveTextDocument(f)
    \/ \E f \in EventFiles(content) : DocumentLink(f)
    \/ \E m \in NotAvailableMethods : NotAvailable(m)
    \/ Hover
    \/ \E m \in EmptyHandlers : EmptyHandler(m)
    \/ \E f \in DOMAIN content : Edit(f)

Spec == Init /\ [][Next]_vars

----------------------------------------------------------------------------
(* The traversal on its own: one iterator over one graph, stepped by       *)
(* next() until it is exhausted or yields an error, then collected.        *)

\* edges of the graphs the traversal is run on
MaxDfsEdges == 3

DfsNodes == <<FA, FB, FC>>

DfsStart == 1

EdgeLists ==
    UNION {[1..k -> (1..Len(DfsNodes)) \X (1..Len(DfsNodes))] : k \in 0..MaxDfsEdges}

\* the position an include on line n of a file has
PositionOnLine(n) ==
    [line |-> n, start |-> IncludePrefixLen, end |-> IncludePrefixLen + 1]

RECURSIVE AddEdgeList(_, _)
AddEdgeList(g, es) ==
    IF es = <<>> THEN g
    ELSE AddEdgeList(AddEdge(g, Head(es)[1], Head(es)[2],
                             PositionOnLine(Len(OutEdges(g, Head(es)[1])))),
                     Tail(es))

GraphOfEdges(es) ==
    AddEdgeList([nodes |-> DfsNodes, out |-> [i \in 1..Len(DfsNodes) |-> <<>>]], es)

InitDfs ==
    /\ graph \in {GraphOfEdges(es) : es \in EdgeLists}
    /\ root = WorkspaceRoot
    /\ wait = 0
    /\ inits = 0
    /\ early = 0
    /\ blocked = FALSE
    /\ crashed = FALSE
    /\ content = Workspace1
    /\ lastEvent = Event("start", NoPath, "none")
    /\ upd = NoUpdate
    /\ lintOut = NoLint
    /\ links = <<>>
    /\ dfs = DfsNew(DfsStart)
    /\ dfsResult = NoDfsResult

\* one call of Iterator::next
DfsStep ==
    /\ dfs.status = "running"
    /\ dfs' = DfsNext(graph, dfs)
    /\ UNCHANGED <<graph, root, wait, inits, early, blocked, crashed, content,
                   lastEvent, upd, lintOut, links, dfsResult>>

\* collect() once the iterator has ended
DfsCollect ==
    /\ dfs.status \in {"done", "cycle"}
    /\ ~dfsResult.set
    /\ dfsResult' = CollectResult(dfs)
    /\ UNCHANGED <<graph, root, wait, inits, early, blocked, crashed, content,
                   lastEvent, upd, lintOut, links, dfs>>

NextDfs == DfsStep \/ DfsCollect

\* collect() keeps calling next(): the traversal is never left half-way
SpecDfs == InitDfs /\ [][NextDfs]_vars /\ WF_vars(NextDfs)

RECURSIVE ReachFrom(_, _)
ReachFrom(g, seen) ==
    LET more == UNION {Range(ChildNodeIndexes(g, n)) : n \in seen}
    IN  IF more \subseteq seen THEN seen ELSE ReachFrom(g, seen \cup more)

\* some node reachable from start lies on a cycle
CycleReachable(g, start) ==
    \E n \in ReachFrom(g, {start}) : n \in ReachFrom(g, Range(ChildNodeIndexes(g, n)))

\* pre-order of an acyclic graph: the node, then the subtrees of its
\* children in the insertion order of its edges
RECURSIVE PreOrder(_, _, _)
RECURSIVE PreOrderAll(_, _, _)
PreOrder(g, n, parent) == <<<<n, parent>>>> \o PreOrderAll(g, ChildNodeIndexes(g, n), n)
PreOrderAll(g, children, parent) ==
    IF children = <<>> THEN <<>>
    ELSE PreOrder(g, Head(children), parent) \o PreOrderAll(g, Tail(children), parent)

\* the number of paths (edge sequences) from node n to node m, acyclic graph
RECURSIVE PathCount(_, _, _)
RECURSIVE PathCountAll(_, _, _)
PathCount(g, n, m) ==
    (IF n = m THEN 1 ELSE 0) + PathCountAll(g, ChildNodeIndexes(g, n), m)
PathCountAll(g, children, m) ==
    IF children = <<>> THEN 0
    ELSE PathCount(g, Head(children), m) + PathCountAll(g, Tail(children), m)

\* the iterator, stepped, ends as get_dfs_for_node computes it
DfsAgrees == dfsResult.set => dfsResult = GetDfsForNode(graph, DfsStart)

----------------------------------------------------------------------------
(* The claims.                                                             *)

\* C1: after update_includes(f) for a file with a node, the multiset of
\* (child_path, position) over f's outgoing edges equals the scanned includes.
C1_EdgesEqualScan ==
    (lastEvent.kind = "did_save" /\ upd.hadNode) =>
        SameMultiset(ChildNodeMeta(graph, FindNode(graph, upd.file)), upd.scanned)

\* C2: update_includes removes only edges whose (child_path, position) is
\* absent from the scanned includes and adds only includes absent from the
\* edges f had.
C2_UnchangedEdgesUntouched ==
    (lastEvent.kind = "did_save" /\ upd.hadNode) =>
        /\ \A e \in Range(upd.removed) : e \notin Range(upd.scanned)
        /\ \A e \in Range(upd.added) : e \notin Range(upd.prev)

\* C3: every node visited by a DFS of a lint that returns a map has its URI
\* among the keys of the map.
C3_VisitedAreKeys ==
    lintOut.status = "ok" =>
        \A q \in lintOut.visited : UrlFromFilePath(q).url \in DOMAIN lintOut.result

\* C4: a lint in which a DFS reports a cycle returns a map giving the
\* triggering URI exactly one diagnostic, never calls the validator, and the
\* server goes on handling events.
C4_CycleIsOneDiagnostic ==
    lintOut.cycle =>
        /\ lintOut.status = "ok"
        /\ UrlFromFilePath(lintOut.trigger).url \in DOMAIN lintOut.result
        /\ Len(lintOut.result[UrlFromFilePath(lintOut.trigger).url]) = 1
        /\ lintOut.validated = <<>>
        /\ lastEvent.response = "published"
        /\ Alive

\* a cycle was reported in a lint of a file with root ancestors
C4_Witness ==
    /\ lintOut.cycle
    /\ lintOut.trigger = FB
    /\ CollectRootAncestors(graph, FindNode(graph, FB)) # {}

\* C5: the list returned for a URI holds the diagnostics parsed from every
\* root's driver output for that URI.
C5_EveryRootKept ==
    lintOut.status = "ok" =>
        \A i \in 1..Len(lintOut.parsed) : \A u \in DOMAIN lintOut.parsed[i] :
            /\ u \in DOMAIN lintOut.result
            /\ Range(lintOut.parsed[i][u]) \subseteq Range(lintOut.result[u])

\* C6: on a graph with a cycle reachable from the start node the traversal
\* ends, and it ends in a CycleError instead of a visit list.
C6_CycleEndsInError ==
    CycleReachable(graph, DfsStart) =>
        /\ <>(dfsResult.set /\ ~dfsResult.ok)
        /\ [](dfsResult.set => ~dfsResult.ok /\ dfsResult.tree = <<>>)

\* the traversal of a graph with a cycle of three nodes has ended in an error
C6_Witness ==
    /\ dfsResult.set /\ ~dfsResult.ok
    /\ CycleReachable(graph, DfsStart)
    /\ Len(dfsResult.visited) = Len(DfsNodes)

\* C7: on an acyclic graph the traversal yields the visits in pre-order: the
\* root first with parent None, every other visit after a visit of its
\* parent, siblings in the insertion order of the edges, a node once per path.
C7_PreOrder ==
    (dfsResult.set /\ ~CycleReachable(graph, DfsStart)) =>
        /\ dfsResult.ok
        /\ dfsResult.tree = PreOrder(graph, DfsStart, None)
        /\ dfsResult.tree[1] = <<DfsStart, None>>
        /\ \A i \in 2..Len(dfsResult.tree) :
              \E j \in 1..(i - 1) : dfsResult.tree[j][1] = dfsResult.tree[i][2]
        /\ \A n \in 1..Len(DfsNodes) :
              Cardinality({i \in 1..Len(dfsResult.tree) : dfsResult.tree[i][1] = n})
                 = PathCount(graph, DfsStart, n)

\* a diamond was traversed: two children in order, a grandchild visited twice
C7_Witness ==
    /\ dfsResult.set /\ dfsResult.ok
    /\ ~CycleReachable(graph, DfsStart)
    /\ Len(ChildNodeIndexes(graph, DfsStart)) = 2
    /\ ChildNodeIndexes(graph, DfsStart)[1] # ChildNodeIndexes(graph, DfsStart)[2]
    /\ \E n \in 1..Len(DfsNodes) : PathCount(graph, DfsStart, n) = 2

\* C8: documentLink(f) returns one link per outgoing edge of f, in insertion
\* order, with that edge's own position and its child's URI (stated here for
\* files all of whose children have a URI).
C8_LinkPerEdge ==
    LET node == FindNode(graph, lastEvent.file)
        es == OutEdges(graph, node)
    IN  (/\ lastEvent.kind = "document_link"
         /\ node # None
         /\ \A i \in 1..Len(es) : GetNode(graph, es[i].child).abs) =>
            links = [i \in 1..Len(es) |->
                        [line |-> es[i].meta.line, start |-> es[i].meta.start,
                         end |-> es[i].meta.end,
                         target |-> Uri(GetNode(graph, es[i].child))]]

\* the requests the claim lists as outside the minimal set
RequestsOutsideMinimalSet == NotAvailableMethods \cup {"hover"}

\* C9: every request outside the minimal set is completed with the
\* "not available" failure.
C9_NotAvailable ==
    lastEvent.kind \in RequestsOutsideMinimalSet => lastEvent.response = "not_available"

\* C10: a hover handled after a successful initialize does not block.
C10_HoverDoesNotBlock ==
    (lastEvent.kind = "hover" /\ root = WorkspaceRoot) => ~blocked

\* C11: after did_open(f) or did_save(f) was handled for a path f under the
\* workspace root, f has a node in the graph.
C11_EventFileHasNode ==
    (/\ lastEvent.kind \in {"did_open", "did_save"}
     /\ root = WorkspaceRoot
     /\ StartsWith(lastEvent.file, root)) =>
        FindNode(graph, lastEvent.file) # None

\* C12: no event removes a node or changes the path an id resolves to, and no
\* path ever has two ids: re-scans change edges only.
C12_NodesStable ==
    [][/\ Len(graph'.nodes) >= Len(graph.nodes)
       /\ \A i \in 1..Len(graph.nodes) : GetNode(graph', i) = GetNode(graph, i)
       /\ \A i \in 1..Len(graph'.nodes) : FindNode(graph', GetNode(graph', i)) = i
       /\ \A i \in 1..Len(graph.nodes) :
             AddNode(graph', GetNode(graph, i)) = <<graph', i>>]_vars

\* a re-scan removed one edge and added another in a graph of three nodes
C12_Witness ==
    /\ lastEvent.kind = "did_save"
    /\ upd.removed # <<>> /\ upd.added # <<>>
    /\ Len(graph.nodes) >= 3

\* C13: a lint that fails, for a file without a node or for a source that
\* cannot be read, returns an error; the handler publishes nothing for the
\* event and the server goes on handling events.
C13_LintErrorPublishesNothing ==
    lintOut.status = "err" =>
        /\ lastEvent.kind \in {"did_open", "did_save"}
        /\ lastEvent.response = "logged"
        /\ lintOut.result = EmptyMap
        /\ Alive

\* a lint failed reading the source of an included file that is not on disk
C13_Witness ==
    /\ lintOut.status = "err"
    /\ FindNode(graph, lintOut.trigger) # None
    /\ lintOut.reads # <<>>
    /\ lintOut.reads[Len(lintOut.reads)] \notin DOMAIN content

\* the files the DFS from the root of path rootPath visits
VisitedFrom(g, rootPath) ==
    VisitedNodes(g, GetDfsForNode(g, FindNode(g, rootPath)).visited)

\* C14: when validate() answers None for a root, lint still returns a map in
\* which every file visited from that root has a key, no diagnostic of the
\* map stems from that root, and every other root is validated all the same.
C14_NoneStillBackFills ==
    (\E i \in 1..Len(lintOut.validated) : ~lintOut.validated[i].some) =>
        /\ lintOut.status = "ok"
        /\ lastEvent.response = "published"
        /\ {lintOut.validated[i].root : i \in 1..Len(lintOut.validated)}
              = LintRoots(graph, lintOut.trigger)
        /\ \A i \in 1..Len(lintOut.validated) :
              ~lintOut.validated[i].some =>
                 /\ lintOut.parsed[i] = EmptyMap
                 /\ \A q \in VisitedFrom(graph, lintOut.validated[i].root) :
                       /\ UrlFromFilePath(q).ok
                       /\ UrlFromFilePath(q).url \in DOMAIN lintOut.result
        /\ \A u \in DOMAIN lintOut.result : \A d \in Range(lintOut.result[u]) :
              \E j \in 1..Len(lintOut.validated) :
                 /\ lintOut.validated[j].some
                 /\ u \in DOMAIN lintOut.parsed[j]
                 /\ d \in Range(lintOut.parsed[j][u])

\* of two roots the first got None from validate(), the second diagnostics
C14_Witness ==
    /\ Len(lintOut.validated) = 2
    /\ ~lintOut.validated[1].some
    /\ lintOut.validated[2].some
    /\ lintOut.parsed[2] # EmptyMap

\* the URI the claim files a matched driver line under
FiledUnder(trigger, l) == IF l.zero THEN Uri(trigger) ELSE Uri(l.path)

\* the matched lines of a driver output that are filed under u
LinesFiledUnder(trigger, stdout, u) ==
    SelectSeq(stdout, LAMBDA l : l.matches /\ FiledUnder(trigger, l) = u)

ClaimedResolution(rt, file, t) ==
    IF t.abs
    THEN MkPath(rt.abs, rt.dir \o <<"shaders">> \o SelectSeq(t.dir, LAMBDA c : c # ""),
                t.name, t.ext)
    ELSE MkPath(file.abs, file.dir \o t.dir, t.name, t.ext)

\* C16: after a file was re-scanned, each of its include directives has an
\* edge from the file to the node of the path the target resolves to:
\* <root>/shaders/<target without its leading '/'> or <directory of the
\* file>/<target>.
C16_ResolvedAsClaimed ==
    (lastEvent.kind = "did_save" /\ upd.hadNode /\ root = WorkspaceRoot) =>
        \A k \in 1..Len(content[upd.file]) :
            content[upd.file][k].inc =>
                LET p == ClaimedResolution(root, upd.file, content[upd.file][k].target)
                IN  /\ FindNode(graph, p) # None
                    /\ EdgesBetween(graph, FindNode(graph, upd.file), FindNode(graph, p)) # {}

\* no line of the driver output of any validated root matches the grammar
NoLineMatches(l) ==
    \A i \in 1..Len(l.validated) : \A k \in 1..Len(l.validated[i].stdout) :
        ~l.validated[i].stdout[k].matches

\* C17: a lint without a cycle whose driver output has no line matching the
\* grammar returns a map whose keys are exactly the URIs of the files the
\* DFS visited from the lint's roots, each with an empty list.
C17_KeysAreVisited ==
    (lintOut.status = "ok" /\ ~lintOut.cycle /\ NoLineMatches(lintOut)) =>
        /\ DOMAIN lintOut.result = {Uri(q) : q \in lintOut.visited}
        /\ \A u \in DOMAIN lintOut.result : lintOut.result[u] = <<>>

\* a shader and the file it includes were linted, the driver's output was
\* one line outside the grammar
C17_Witness ==
    /\ lintOut.status = "ok" /\ ~lintOut.cycle /\ NoLineMatches(lintOut)
    /\ Len(lintOut.validated) = 1
    /\ lintOut.validated[1].some
    /\ lintOut.validated[1].stdout # <<>>
    /\ lintOut.visited = {FA, FB}

\* C18: the line of every diagnostic is the reported number less the offset,
\* computed without wrapping below zero, and the parser never aborts: not
\* for the reported numbers 0 and 1 and not for a number that fails to parse.
C18_LineNeverWraps ==
    lastEvent.kind \in {"did_open", "did_save"} =>
        /\ lintOut.status # "panic"
        /\ ~Wrapped(lintOut)

\* C19: the lint run by did_open(f) or did_save(f) traverses the includes f
\* has on disk at that moment: every file f includes now is visited.
C19_LintSeesCurrentIncludes ==
    (/\ lastEvent.kind \in {"did_open", "did_save"}
     /\ root = WorkspaceRoot
     /\ lintOut.status = "ok" /\ ~lintOut.cycle) =>
        \A k \in 1..Len(FindIncludes(root, content, lintOut.trigger)) :
            FindIncludes(root, content, lintOut.trigger)[k][1] \in lintOut.visited

\* C20: one lint reads each file from disk at most once.
C20_ReadOnce ==
    \A i, j \in 1..Len(lintOut.reads) : lintOut.reads[i] = lintOut.reads[j] => i = j

\* the graphs the edge diff of did_save(f) can leave, one per iteration order
\* of its two set differences; the graph itself when f has no node
GraphsAfterDiff(g, rt, disk, f) ==
    IF FindNode(g, f) = None THEN {g}
    ELSE {UpdateIncludes(g, rt, disk, f, ro, ao).g :
            ro \in Orders(ToBeRemoved(g, FindNode(g, f), FindIncludes(rt, disk, f))),
            ao \in Orders(ToBeAdded(g, FindNode(g, f), FindIncludes(rt, disk, f)))}

ClaimedKinds ==
    {<<"fsh", "Fragment">>, <<"vsh", "Vertex">>, <<"gsh", "Geometry">>, <<"csh", "Compute">>}

C23_OutsideRootIgnored ==
    (/\ lastEvent.kind \in {"did_open", "did_save"}
     /\ ~StartsWith(lastEvent.file, WorkspaceRoot)) =>
        /\ lastEvent.response = "ignored"
        /\ lintOut = NoLint
        /\ FindNode(graph, lastEvent.file) = None

\* C24: the counter of the startup latch never drops below zero: no
\* workspace/didChangeConfiguration message finds it at zero.
C24_LatchNeverNegative ==
    /\ wait >= 0
    /\ lastEvent.kind = "workspace_change_configuration" => ~crashed

\* C25: when a lint of f published a non-empty list for the URI of a file
\* it visited, the did_save of f that follows it, if its lint succeeds,
\* publishes a list for that URI again, so that the client can clear what
\* it shows.
C25_StaleCleared ==
    [][(/\ lintOut.status = "ok"
        /\ lastEvent.response = "published"
        /\ lastEvent'.kind = "did_save"
        /\ lastEvent'.file = lintOut.trigger
        /\ lintOut'.status = "ok") =>
            \A q \in lintOut.visited :
                (Uri(q) \in DOMAIN lintOut.result /\ lintOut.result[Uri(q)] # <<>>) =>
                    Uri(q) \in DOMAIN lintOut'.result]_vars

====
